---- MODULE Spec2Model ----
(***************************************************************************)
(* Model of the AI book reader (src/app.py): the table-of-contents tree    *)
(* builder build_tree, the sidebar traversal render_node, the Streamlit    *)
(* session around them, and the text-to-speech cache of read_aloud.        *)
(*                                                                         *)
(* Three specifications share the module:                                  *)
(*   SpecBuild   - one call of build_tree, one loop iteration per step     *)
(*   SpecSession - script reruns of one browser session                    *)
(*   SpecTTS     - a sequence of read_aloud calls over the cache directory *)
(***************************************************************************)
EXTENDS Integers, Sequences, FiniteSets, TLC

VARIABLES
    flat_toc,   \* build_tree: the argument, a sequence of <<level, title, page>>
    nodes,      \* build_tree: the TOCNode objects, by identity (0 is root)
    stack,      \* build_tree: the local stack, a sequence of node identities
    idx,        \* build_tree: number of entries the for loop has consumed
    bpc,        \* build_tree: "loop", "returned" or "raised"
    result,     \* build_tree: the returned forest, None before the return
    uploaded_pdf,     \* session: the file the uploader widget holds, or None
    toc,              \* session: st.session_state["toc"]
    current_section,  \* session: st.session_state["current_section"]
    builds,           \* session: extract_pdf_toc calls since the held file changed
    event,            \* session: what triggered the last script run, and its outcome
    cache,            \* read_aloud: the .wav files present in CACHE_DIR
    produced,         \* read_aloud: the (text, voice) whose calls have played audio
    call              \* read_aloud: the last call, what it invoked and played

buildVars == <<flat_toc, nodes, stack, idx, bpc, result>>
sessVars == <<uploaded_pdf, toc, current_section, builds, event>>
ttsVars == <<cache, produced, call>>

vars == <<buildVars, sessVars, ttsVars>>

\* Python's None.
None == <<>>

-----------------------------------------------------------------------------
\* Bounds of the build_tree inputs.
MaxLen == 4
MaxLevel == 3

Levels == 0..MaxLevel
\* The (title, page) an entry carries.
Payloads == {<<"A", 1>>, <<"B", 2>>}

OutlineEntries == {<<l, tp[1], tp[2]>> : l \in Levels, tp \in Payloads}

SeqsUpTo(S, n) == UNION {[1..k -> S] : k \in 0..n}

-----------------------------------------------------------------------------
\* class TOCNode
TOCNode(level, title, page) ==
    [level |-> level, title |-> title, page |-> page, children |-> <<>>]

Last(s) == s[Len(s)]
Front(s) == SubSeq(s, 1, Len(s) - 1)

\* The loop condition's comparison, stack[-1].level >= level.
PopCondStrict(topLevel, level) == topLevel > level
PopCond(topLevel, level) == topLevel >= level

\* while stack and stack[-1].level >= level: stack.pop()
RECURSIVE PopWhile(_, _, _)
PopWhile(heap, stk, level) ==
    IF stk # <<>> /\ PopCond(heap[Last(stk)].level, level)
    THEN PopWhile(heap, Front(stk), level)
    ELSE stk

\* stack[-1].children.append(node): the children of the parent after it.
AppendChildFront(children, id) == <<id>> \o children
AppendChild(children, id) == Append(children, id)

\* The parent a new node is attached to: stack[-1].
AttachTargetBottom(stk) == stk[1]
AttachTarget(stk) == Last(stk)

\* The state of the call before the loop: root = TOCNode(0, "root", None),
\* stack = [root].
BuildInit ==
    [nodes |-> (0 :> TOCNode(0, "root", None)), stack |-> <<0>>, raised |-> FALSE]

\* One iteration of the for loop on entry e; the new node's identity is id.
\* stack[-1] on an empty stack raises IndexError.
LoopBody(st, e, id) ==
    LET node == TOCNode(e[1], e[2], e[3])
        popped == PopWhile(st.nodes, st.stack, e[1])
        heap == (id :> node) @@ st.nodes
    IN  IF popped = <<>>
        THEN [nodes |-> heap, stack |-> popped, raised |-> TRUE]
        ELSE LET p == AttachTarget(popped)
             IN  [nodes |-> [heap EXCEPT ![p].children = AppendChild(@, id)],
                  stack |-> Append(popped, id),
                  raised |-> FALSE]

\* return root.children: the returned list together with the objects it
\* reaches (the root itself is not exposed).
Returned(heap) ==
    [roots |-> heap[0].children,
     nodes |-> [id \in (DOMAIN heap) \ {0} |-> heap[id]]]

\* Python's empty list, as a forest value.
EmptyList == [roots |-> <<>>, nodes |-> <<>>]

RECURSIVE BuildFrom(_, _, _)
BuildFrom(st, flat, i) ==
    IF st.raised \/ i > Len(flat) THEN st
    ELSE BuildFrom(LoopBody(st, flat[i], i), flat, i + 1)

\* build_tree as a function: the returned forest, or "IndexError".
build_tree(flat) ==
    LET st == BuildFrom(BuildInit, flat, 1)
    IN  IF st.raised THEN "IndexError" ELSE Returned(st.nodes)

-----------------------------------------------------------------------------
\* render_node / display_toc_navigation: the widgets in rendering order.
\* if node.children: an expander; else: a button.
IsGroupNever(node) == FALSE
IsGroup(node) == node.children # <<>>

RECURSIVE render_node(_, _)
RECURSIVE RenderAll(_, _)
RenderAll(forest, ids) ==
    IF ids = <<>> THEN <<>>
    ELSE render_node(forest, ids[1]) \o RenderAll(forest, Tail(ids))

render_node(forest, id) ==
    LET node == forest.nodes[id]
    IN  IF IsGroup(node)
        THEN <<[kind |-> "expander", id |-> id]>> \o RenderAll(forest, node.children)
        ELSE <<[kind |-> "button", id |-> id]>>

display_toc_navigation(forest) == RenderAll(forest, forest.roots)

-----------------------------------------------------------------------------
\* The parts of the state a specification does not exercise.
NoBuild ==
    /\ flat_toc = <<>>
    /\ nodes = BuildInit.nodes
    /\ stack = BuildInit.stack
    /\ idx = 0
    /\ bpc = "idle"
    /\ result = None

\* st.session_state.setdefault("toc", []); setdefault("current_section", None)
NoSession ==
    /\ uploaded_pdf = None
    /\ toc = EmptyList
    /\ current_section = None
    /\ builds = 0
    /\ event = [kind |-> "start"]

NoTTS ==
    /\ cache = {}
    /\ produced = {}
    /\ call = [kind |-> "none"]

-----------------------------------------------------------------------------
\* build_tree, one loop iteration per step.
InitBuild ==
    /\ NoSession
    /\ NoTTS
    /\ flat_toc \in SeqsUpTo(OutlineEntries, MaxLen)
    /\ nodes = BuildInit.nodes
    /\ stack = BuildInit.stack
    /\ idx = 0
    /\ bpc = "loop"
    /\ result = None

Iteration ==
    /\ bpc = "loop"
    /\ idx < Len(flat_toc)
    /\ LET st == LoopBody([nodes |-> nodes, stack |-> stack, raised |-> FALSE],
                          flat_toc[idx + 1], idx + 1)
       IN  /\ ~st.raised
           /\ nodes' = st.nodes
           /\ stack' = st.stack
           /\ idx' = idx + 1
    /\ UNCHANGED <<flat_toc, bpc, result, sessVars, ttsVars>>

IterationRaises ==
    /\ bpc = "loop"
    /\ idx < Len(flat_toc)
    /\ LET st == LoopBody([nodes |-> nodes, stack |-> stack, raised |-> FALSE],
                          flat_toc[idx + 1], idx + 1)
       IN  /\ st.raised
           /\ nodes' = st.nodes
           /\ stack' = st.stack
           /\ bpc' = "raised"
    /\ UNCHANGED <<flat_toc, idx, result, sessVars, ttsVars>>

Return ==
    /\ bpc = "loop"
    /\ idx = Len(flat_toc)
    /\ result' = Returned(nodes)
    /\ bpc' = "returned"
    /\ UNCHANGED <<flat_toc, nodes, stack, idx, sessVars, ttsVars>>

NextBuild == Iteration \/ IterationRaises \/ Return

SpecBuild == InitBuild /\ [][NextBuild]_vars

-----------------------------------------------------------------------------
\* The Streamlit session: every user interaction reruns the script top to
\* bottom (lines 201-221) against the session state.

\* Bound of the history counter builds.
MaxBuilds == 3

\* The books a user may upload: file name, page count and outline as
\* pymupdf's get_toc gives it (levels from 1; page -1 for an entry whose
\* destination is not a page of the document).
Docs ==
    {[name |-> "a.pdf", npages |-> 2,
      outline |-> <<<<1, "A", 1>>, <<2, "A.1", 2>>, <<2, "A.2", 3>>, <<1, "B", -1>>>>],
     [name |-> "b.pdf", npages |-> 3,
      outline |-> <<<<1, "X", 1>>, <<1, "Y", 3>>>>],
     [name |-> "c.pdf", npages |-> 1,
      outline |-> <<>>]}

PageNames == <<"1", "2", "3">>

\* The text of the page with zero-based index i of doc, 0 <= i < npages.
PageText(doc, i) == doc.name \o "#" \o PageNames[i + 1]

\* extract_pdf_toc
extract_pdf_toc(doc) == build_tree(doc.outline)

\* doc[page_number]: pymupdf counts a negative page number from the end.
LoadPage(doc, page_number) == PageText(doc, page_number % doc.npages)

\* The guard of extract_text_from_page, page_number < len(doc).
PageGuard(doc, page_number) == page_number < doc.npages

\* extract_text_from_page
extract_text_from_page(doc, page_number) ==
    IF PageGuard(doc, page_number)
    THEN LoadPage(doc, page_number)
    ELSE "Page not found."

\* summarize_text, when the completion call returns.
summarize_text(text) == "summary of " \o text

\* if not st.session_state["toc"]
TocIsFalsy(t) == t.roots = <<>>

\* Lines 215-216: the session's toc after the script has run with doc held.
TocAfterRun(doc) == IF TocIsFalsy(toc) THEN extract_pdf_toc(doc) ELSE toc

\* Lines 59-61: the tuple a pressed button stores.
Selection(doc, node) ==
    LET text == extract_text_from_page(doc, node.page - 1)
    IN  <<node.title, node.page, text, summarize_text(text)>>

\* The widgets the last run left on the page that a press can reach.
Buttons ==
    IF uploaded_pdf = None THEN {}
    ELSE {w.id : w \in {display_toc_navigation(toc)[k] :
                          k \in 1..Len(display_toc_navigation(toc))}
               \cap [kind : {"button"}, id : DOMAIN toc.nodes]}

InitSession ==
    /\ NoBuild
    /\ NoTTS
    /\ NoSession

\* A script run with doc in the uploader and no button pressed.
RunWith(doc, kind) ==
    /\ TocIsFalsy(toc) => builds < MaxBuilds \/ uploaded_pdf # doc
    /\ toc' = TocAfterRun(doc)
    /\ builds' = (IF uploaded_pdf = doc THEN builds ELSE 0)
                 + (IF TocIsFalsy(toc) THEN 1 ELSE 0)
    /\ uploaded_pdf' = doc
    /\ event' = [kind |-> kind]
    /\ UNCHANGED <<current_section, buildVars, ttsVars>>

\* The user puts a file into the uploader (the first, or another one).
Upload ==
    \E doc \in Docs :
        /\ uploaded_pdf # doc
        /\ RunWith(doc, "upload")

\* The user removes the file: the script runs with uploaded_pdf None.
ClearUpload ==
    /\ uploaded_pdf # None
    /\ uploaded_pdf' = None
    /\ builds' = 0
    /\ event' = [kind |-> "clear"]
    /\ UNCHANGED <<toc, current_section, buildVars, ttsVars>>

\* Any other interaction (the voice selector, the read-aloud button).
Rerun ==
    /\ uploaded_pdf # None
    /\ RunWith(uploaded_pdf, "rerun")

\* The user presses the button of node id; extract and summarize return.
PressLeaf ==
    \E id \in Buttons :
        /\ current_section' = Selection(uploaded_pdf, toc.nodes[id])
        /\ event' = [kind |-> "press", id |-> id, ok |-> TRUE]
        /\ UNCHANGED <<uploaded_pdf, toc, builds, buildVars, ttsVars>>

\* The same press when summarize_text raises: the run ends at line 60.
PressLeafRaises ==
    \E id \in Buttons :
        /\ event' = [kind |-> "press", id |-> id, ok |-> FALSE]
        /\ UNCHANGED <<uploaded_pdf, toc, current_section, builds, buildVars, ttsVars>>

NextSession == Upload \/ ClearUpload \/ Rerun \/ PressLeaf \/ PressLeafRaises

SpecSession == InitSession /\ [][NextSession]_vars

-----------------------------------------------------------------------------
\* read_aloud over the cache directory: one action per call and outcome of
\* the two speech engines.

\* Section texts (chunks) and the narration voices of the selector.
Texts == {"t1", "t2"}
Voices == {"Zephyr", "Puck"}
FallbackVoice == "en-US-GuyNeural"

\* uuid.uuid5(NAMESPACE_DNS, name): a SHA-1 digest of the name, taken as
\* collision free, so the name stands for its digest.
uuid5(name) == name

\* get_cache_filename
get_cache_filename(text, voice) == uuid5(text \o voice) \o "_" \o voice \o ".wav"

\* Line 135: the file the except branch saves to.
FallbackFilename(text, voice) == get_cache_filename(text, FallbackVoice)

\* Line 139 after the except branch: filename is the name line 135 rebound.
OpenedAfterFallbackStale(text, voice) == get_cache_filename(text, voice)
OpenedAfterFallback(text, voice) == FallbackFilename(text, voice)

\* Line 101: the cache gate, os.path.exists(filename).
CacheHit(text, voice) == get_cache_filename(text, voice) \in cache

\* Lines 139-140: open(filename) and st.audio; a missing file raises.
Play(text, voice, primary, fallback, filename, files) ==
    /\ call' = [kind |-> "read_aloud", text |-> text, voice |-> voice,
                hadAudio |-> <<text, voice>> \in produced,
                primary |-> primary, fallback |-> fallback,
                fallbackText |-> IF fallback = "not called" THEN "" ELSE text,
                played |-> IF filename \in files THEN filename ELSE "",
                raised |-> filename \notin files]
    /\ cache' = files
    /\ produced' = IF filename \in files THEN produced \cup {<<text, voice>>}
                   ELSE produced

InitTTS ==
    /\ NoBuild
    /\ NoSession
    /\ NoTTS

\* The file exists: no synthesis, the cached file is played.
ReadAloudCached ==
    \E text \in Texts, voice \in Voices :
        /\ CacheHit(text, voice)
        /\ Play(text, voice, "not called", "not called",
                get_cache_filename(text, voice), cache)
        /\ UNCHANGED <<buildVars, sessVars>>

\* No file, Gemini answers: wave_file writes the file, which is played.
ReadAloudPrimary ==
    \E text \in Texts, voice \in Voices :
        /\ ~CacheHit(text, voice)
        /\ Play(text, voice, "returned", "not called",
                get_cache_filename(text, voice),
                cache \cup {get_cache_filename(text, voice)})
        /\ UNCHANGED <<buildVars, sessVars>>

\* No file, the try block raises, edge-tts saves its file. The try block
\* raises either before wave_file opens the file or inside wave_file, after
\* wave.open has created it.
ReadAloudFallback ==
    \E text \in Texts, voice \in Voices, opened \in BOOLEAN :
        /\ ~CacheHit(text, voice)
        /\ Play(text, voice, "raised", "returned",
                OpenedAfterFallback(text, voice),
                cache \cup {FallbackFilename(text, voice)}
                      \cup (IF opened THEN {get_cache_filename(text, voice)} ELSE {}))
        /\ UNCHANGED <<buildVars, sessVars>>

\* No file, the try block raises and so does edge-tts: its exception leaves
\* read_aloud from the except branch, nothing is played. (A file edge-tts
\* may leave behind carries the fallback voice's name, which no call checks.)
ReadAloudBothFail ==
    \E text \in Texts, voice \in Voices, opened \in BOOLEAN :
        /\ ~CacheHit(text, voice)
        /\ call' = [kind |-> "read_aloud", text |-> text, voice |-> voice,
                    hadAudio |-> <<text, voice>> \in produced,
                    primary |-> "raised", fallback |-> "raised",
                    fallbackText |-> text,
                    played |-> "", raised |-> TRUE]
        /\ cache' = cache \cup (IF opened THEN {get_cache_filename(text, voice)} ELSE {})
        /\ UNCHANGED <<produced, buildVars, sessVars>>

NextTTS == ReadAloudCached \/ ReadAloudPrimary \/ ReadAloudFallback \/ ReadAloudBothFail

SpecTTS == InitTTS /\ [][NextTTS]_vars

-----------------------------------------------------------------------------
\* Reading the built forest back.

\* The <<level, title, page>> of each rendered widget's node, in order.
WidgetTriples(forest) ==
    LET ws == display_toc_navigation(forest)
    IN  [k \in 1..Len(ws) |->
            LET n == forest.nodes[ws[k].id] IN <<n.level, n.title, n.page>>]

\* The holders of node k in a forest: 0 for the returned top-level list,
\* p for the children list of node p; one element per occurrence.
Holders(forest, k) ==
    {<<0, j>> : j \in {i \in 1..Len(forest.roots) : forest.roots[i] = k}}
    \cup UNION {{<<p, j>> : j \in {i \in 1..Len(forest.nodes[p].children) :
                                      forest.nodes[p].children[i] = k}} :
                p \in DOMAIN forest.nodes}

\* The nearest preceding input entry with a strictly smaller level, 0 if none.
NearestSmaller(flat, k) ==
    LET S == {j \in 1..(k - 1) : flat[j][1] < flat[k][1]}
    IN  IF S = {} THEN 0 ELSE CHOOSE j \in S : \A m \in S : m <= j

\* Some entry after k has a strictly greater level before the next entry
\* whose level is <= that of k.
HasDeeperBeforeNextPeer(flat, k) ==
    \E j \in (k + 1)..Len(flat) :
        /\ flat[j][1] > flat[k][1]
        /\ \A m \in (k + 1)..(j - 1) : flat[m][1] > flat[k][1]

-----------------------------------------------------------------------------
\* C1: the pre-order traversal of the forest build_tree returns is the input
\* sequence: same length and the same (level, title, page) at each position.
C1_PreOrderIsInput ==
    bpc = "returned" => WidgetTriples(result) = flat_toc

\* A returned forest with nesting, a sibling pair and a drop of two levels.
C1_Witness ==
    /\ bpc = "returned"
    /\ Len(flat_toc) >= 4
    /\ \E i \in 1..(Len(flat_toc) - 1) : flat_toc[i][1] >= flat_toc[i + 1][1] + 2
    /\ \E n \in DOMAIN result.nodes : Len(result.nodes[n].children) >= 2
    /\ \E i, j \in 1..Len(flat_toc) : flat_toc[i][2] # flat_toc[j][2]

\* C2: build_tree never raises, level 0 included, and the returned forest
\* holds exactly one node per input entry.
C2_NeverFailsNeverDrops ==
    /\ bpc # "raised"
    /\ bpc = "returned" =>
          /\ Len(display_toc_navigation(result)) = Len(flat_toc)
          /\ \A k \in 1..Len(flat_toc) : Cardinality(Holders(result, k)) = 1

\* C3: each node hangs under the nearest preceding entry of strictly smaller
\* level, exactly once, and is top-level when there is none; an entry at or
\* below the smallest level seen so far is top-level, and an entry with the
\* level of the previous one is its sibling.
C3_ParentIsNearestSmaller ==
    bpc = "returned" =>
        \A k \in 1..Len(flat_toc) :
            /\ Cardinality(Holders(result, k)) = 1
            /\ \A h \in Holders(result, k) : h[1] = NearestSmaller(flat_toc, k)
            /\ (\A j \in 1..(k - 1) : flat_toc[k][1] <= flat_toc[j][1])
                  => \E h \in Holders(result, k) : h[1] = 0
            /\ (k > 1 /\ flat_toc[k][1] = flat_toc[k - 1][1])
                  => \E h \in Holders(result, k), g \in Holders(result, k - 1) :
                        h[1] = g[1] /\ h[2] = g[2] + 1

\* A returned forest where the level falls from 3 straight to 1 and where an
\* entry repeats the level of the previous one below the top level.
C3_Witness ==
    /\ bpc = "returned"
    /\ \E i \in 1..(Len(flat_toc) - 1) : flat_toc[i][1] = 3 /\ flat_toc[i + 1][1] = 1
    /\ \E k \in 2..Len(flat_toc) :
          /\ flat_toc[k][1] = flat_toc[k - 1][1]
          /\ NearestSmaller(flat_toc, k) # 0

\* C4: in every state of the build pass and in the returned forest, a child's
\* level is strictly greater than its parent's (the root has level 0).
C4_ChildDeeperThanParent ==
    /\ \A p \in DOMAIN nodes :
          \A j \in 1..Len(nodes[p].children) :
              nodes[nodes[p].children[j]].level > nodes[p].level
    /\ bpc = "returned" =>
          /\ \A j \in 1..Len(result.roots) : result.nodes[result.roots[j]].level > 0
          /\ \A p \in DOMAIN result.nodes :
                \A j \in 1..Len(result.nodes[p].children) :
                    result.nodes[result.nodes[p].children[j]].level
                        > result.nodes[p].level

\* An intermediate state of the loop with a grandchild already attached and
\* entries still to come.
C4_Witness ==
    /\ bpc = "loop"
    /\ idx < Len(flat_toc)
    /\ \E p \in (DOMAIN nodes) \ {0} : nodes[p].children # <<>>

\* C5: a node of the returned forest has no children iff no later entry has
\* a strictly greater level before the next entry at <= its own level, that
\* is, iff it is the last entry or the next entry's level is <= its own.
C5_LeafDetermination ==
    bpc = "returned" =>
        \A k \in 1..Len(flat_toc) :
            /\ (result.nodes[k].children = <<>>)
                  <=> ~HasDeeperBeforeNextPeer(flat_toc, k)
            /\ (result.nodes[k].children = <<>>)
                  <=> (k = Len(flat_toc) \/ flat_toc[k + 1][1] <= flat_toc[k][1])

\* A returned forest with a leaf in the middle of the input and a node with
\* children.
C5_Witness ==
    /\ bpc = "returned"
    /\ \E k \in 1..(Len(flat_toc) - 1) : result.nodes[k].children = <<>>
    /\ \E k \in 1..Len(flat_toc) : result.nodes[k].children # <<>>

-----------------------------------------------------------------------------
\* C6: whenever a document is held, the session's forest is build_tree of
\* that document's outline, built once for it and not again on reruns.
C6_TocIsCurrentOutline ==
    uploaded_pdf # None =>
        /\ toc = extract_pdf_toc(uploaded_pdf)
        /\ builds <= 1

\* Every button on the page belongs to a leaf, and the node of the session's
\* forest a selection names is a leaf.
C7_SelectionIsLeaf ==
    /\ \A id \in Buttons : toc.nodes[id].children = <<>>
    /\ current_section # None =>
          \E id \in DOMAIN toc.nodes :
              /\ toc.nodes[id].children = <<>>
              /\ current_section[1] = toc.nodes[id].title
              /\ current_section[2] = toc.nodes[id].page

\* current_section changes only in a run where a leaf's button was pressed,
\* and then to that leaf's title and page.
C7_ChangeIsLeafPress ==
    current_section' # current_section =>
        /\ event'.kind = "press"
        /\ toc.nodes[event'.id].children = <<>>
        /\ current_section'[1] = toc.nodes[event'.id].title
        /\ current_section'[2] = toc.nodes[event'.id].page

\* C7: only leaves are selectable: current_section is None or carries the
\* title and page of a childless node of the session's forest, and it
\* changes only by pressing a leaf (never through a node with children).
C7_OnlyLeavesSelectable ==
    []C7_SelectionIsLeaf /\ [][C7_ChangeIsLeafPress]_vars

\* A leaf below a grouping node has been pressed and its selection stored.
C7_Witness ==
    /\ event.kind = "press"
    /\ event.ok
    /\ current_section # None
    /\ \E g \in DOMAIN toc.nodes :
          \E j \in 1..Len(toc.nodes[g].children) : toc.nodes[g].children[j] = event.id

\* C10: after a press on a leaf with page p of a document of N pages, the
\* stored text is the p-th page's text when 1 <= p <= N and
\* "Page not found." for every other p.
C10_PageResolvedOrNotFound ==
    (event.kind = "press" /\ event.ok) =>
        LET p == toc.nodes[event.id].page
        IN  current_section[3] =
                IF 1 <= p /\ p <= uploaded_pdf.npages
                THEN PageText(uploaded_pdf, p - 1)
                ELSE "Page not found."

\* C8: when the primary synthesis raises and edge-tts succeeds, edge-tts was
\* invoked for the call's text, read_aloud does not raise, and the file it
\* plays exists and is the one the fallback wrote.
C8_FallbackPlays ==
    (call.kind = "read_aloud" /\ call.primary = "raised") =>
        /\ call.fallback # "not called"
        /\ call.fallbackText = call.text
        /\ call.fallback = "returned" =>
              /\ ~call.raised
              /\ call.played = FallbackFilename(call.text, call.voice)
              /\ call.played \in cache

\* A call whose primary synthesis raised, after wave.open had created the
\* primary file, and whose fallback returned.
C8_Witness ==
    /\ call.kind = "read_aloud"
    /\ call.primary = "raised"
    /\ call.fallback = "returned"
    /\ get_cache_filename(call.text, call.voice) \in cache

\* C9: once a call for (text, voice) has played audio, a later call for the
\* same (text, voice) invokes no engine and plays get_cache_filename(text,
\* voice), whichever engine produced the earlier audio.
C9_CacheGate ==
    (call.kind = "read_aloud" /\ call.hadAudio) =>
        /\ call.primary = "not called"
        /\ call.fallback = "not called"
        /\ call.played = get_cache_filename(call.text, call.voice)

====
